---- MODULE Spec2Model ----
(***************************************************************************)
(* Model of server.py: the three Flask handlers (health_check,             *)
(* get_transcript, analyze_lyrics), the completion wrapper analyze_with_ai *)
(* and the quote sanitizer clean_quotes.                                   *)
(*                                                                         *)
(* Text is a sequence of one-character strings, so that the regular        *)
(* expression substitutions of clean_quotes and the grammar of json.loads  *)
(* are computed character by character.                                    *)
(*                                                                         *)
(* The handlers are modelled for requests the rate limiter admits.         *)
(***************************************************************************)
EXTENDS Integers, Sequences, FiniteSets, TLC

VARIABLES phase, request, response, calls, log, outcome, message, final_response

vars == <<phase, request, response, calls, log, outcome, message, final_response>>

----------------------------------------------------------------------------
(* Characters and character classes                                        *)

Q == "\""
NL == "\n"
SENTINEL == "@"

Digits == {"0", "1", "2", "3", "4", "5", "6", "7", "8", "9"}

\* \s of the re module (ASCII part)
ReSpace == {" ", "\t", "\n", "\r", "\f"}

\* whitespace json.loads skips between tokens
JsonSpace == {" ", "\t", "\n", "\r"}

\* characters json.loads (strict) refuses inside a string literal
ControlChars == {"\t", "\n", "\r", "\f"}

InClass(cls, c) ==
  CASE cls = "space" -> c \in ReSpace
    [] cls = "digit" -> c \in Digits
    [] cls = "nonquote" -> c # Q
    [] cls = "jsonspace" -> c \in JsonSpace

\* the character at position i, "" past the end of the text
At(s, i) == IF i >= 1 /\ i <= Len(s) THEN s[i] ELSE ""

StartsWith(s, i, w) ==
  /\ i >= 1
  /\ i + Len(w) - 1 <= Len(s)
  /\ SubSeq(s, i, i + Len(w) - 1) = w

Min(S) == CHOOSE x \in S : \A y \in S : x <= y

\* length of the longest run of characters of class cls starting at i
\* (a greedy cls* of the re module)
Run(cls, s, i) ==
  LET stop == {j \in i..Len(s) : ~InClass(cls, s[j])}
  IN IF i > Len(s) THEN 0
     ELSE IF stop = {} THEN Len(s) - i + 1
     ELSE Min(stop) - i

----------------------------------------------------------------------------
(* clean_quotes: four marking substitutions, a strip and a restore         *)

WText == <<"t", "e", "x", "t">>
WMeaning == <<"m", "e", "a", "n", "i", "n", "g">>

\* length of the alternative (text|meaning) matched at i, 0 if neither
WordLen(s, i) ==
  IF StartsWith(s, i, WText) THEN Len(WText)
  ELSE IF StartsWith(s, i, WMeaning) THEN Len(WMeaning)
  ELSE 0

\* "(text|meaning)":\s*"
Match1(s, i) ==
  LET w == WordLen(s, i + 1)
      k == Run("space", s, i + 3 + w)
  IN IF /\ At(s, i) = Q
        /\ w > 0
        /\ At(s, i + 1 + w) = Q
        /\ At(s, i + 2 + w) = ":"
        /\ At(s, i + 3 + w + k) = Q
     THEN 4 + w + k
     ELSE 0

\* @\1@:@
Repl1(s, i) ==
  LET w == WordLen(s, i + 1)
  IN <<SENTINEL>> \o SubSeq(s, i + 1, i + w) \o <<SENTINEL, ":", SENTINEL>>

\* "([0-9]+)"
Match2(s, i) ==
  LET d == Run("digit", s, i + 1)
  IN IF At(s, i) = Q /\ d > 0 /\ At(s, i + 1 + d) = Q THEN d + 2 ELSE 0

\* "((?:text|meaning)[^"]*)"
Match3(s, i) ==
  LET w == WordLen(s, i + 1)
      r == Run("nonquote", s, i + 1 + w)
  IN IF At(s, i) = Q /\ w > 0 /\ At(s, i + 1 + w + r) = Q
     THEN w + r + 2
     ELSE 0

\* @\1@ (the replacement of the second and of the third substitution)
ReplInner(s, i, n) ==
  <<SENTINEL>> \o SubSeq(s, i + 1, i + n - 2) \o <<SENTINEL>>

\* "(,\n|}|\n)
Match4(s, i) ==
  IF At(s, i) # Q THEN 0
  ELSE IF StartsWith(s, i + 1, <<",", NL>>) THEN 3
  ELSE IF At(s, i + 1) = "}" THEN 2
  ELSE IF At(s, i + 1) = NL THEN 2
  ELSE 0

\* @\1
Repl4(s, i, n) == <<SENTINEL>> \o SubSeq(s, i + 1, i + n - 1)

MatchLen(p, s, i) ==
  CASE p = 1 -> Match1(s, i)
    [] p = 2 -> Match2(s, i)
    [] p = 3 -> Match3(s, i)
    [] p = 4 -> Match4(s, i)

Repl(p, s, i, n) ==
  CASE p = 1 -> Repl1(s, i)
    [] p = 2 -> ReplInner(s, i, n)
    [] p = 3 -> ReplInner(s, i, n)
    [] p = 4 -> Repl4(s, i, n)

\* re.sub: the matches are taken leftmost first and do not overlap; the
\* text between two matches is copied. i is where the scan resumes, j the
\* start of the next match and n its length.
RECURSIVE ReSub(_, _, _)

ReSubMatch(p, s, i, j, n) ==
  SubSeq(s, i, j - 1) \o Repl(p, s, j, n) \o ReSub(p, s, j + n)

ReSubNext(p, s, i, starts) ==
  IF starts = {} THEN SubSeq(s, i, Len(s))
  ELSE ReSubMatch(p, s, i, Min(starts), MatchLen(p, s, Min(starts)))

ReSub(p, s, i) ==
  ReSubNext(p, s, i, {j \in i..Len(s) : MatchLen(p, s, j) > 0})

step1(text) == ReSub(1, text, 1)
step2(text) == ReSub(2, step1(text), 1)
step3(text) == ReSub(3, step2(text), 1)
step4(text) == ReSub(4, step3(text), 1)

\* re.sub(r'"', '', step4)
step5(text) == SelectSeq(step4(text), LAMBDA c : c # Q)

\* str.replace('@', '"')
Restore(s) == [k \in 1..Len(s) |-> IF s[k] = SENTINEL THEN Q ELSE s[k]]

clean_quotes(text) == Restore(step5(text))

----------------------------------------------------------------------------
(* json.loads: the JSON grammar, with the values it builds                 *)

JInvalid == [t |-> "invalid"]
JString(s) == [t |-> "string", s |-> s]
JNumber(lit) == [t |-> "number", lit |-> lit]
JLiteral(name) == [t |-> name]
JArray(items) == [t |-> "array", items |-> items]
JObject(keys, vals) == [t |-> "object", keys |-> keys, vals |-> vals]

Fail == [ok |-> FALSE, pos |-> 0, val |-> JInvalid]
Ok(pos, val) == [ok |-> TRUE, pos |-> pos, val |-> val]

SkipWs(s, i) == i + Run("jsonspace", s, i)

HexDigits == Digits \cup {"a", "b", "c", "d", "e", "f", "A", "B", "C", "D", "E", "F"}

SimpleEscapes == {Q, "\\", "/", "b", "f", "n", "r", "t"}

Unescape(c) ==
  CASE c = "b" -> "\\b"
    [] c = "f" -> "\f"
    [] c = "n" -> "\n"
    [] c = "r" -> "\r"
    [] c = "t" -> "\t"
    [] OTHER -> c

RECURSIVE ScanString(_, _, _)

\* the string literal at its next quote, backslash or control character, at e
ScanStop(s, e, chunk) ==
  IF s[e] = Q THEN Ok(e + 1, JString(chunk))
  ELSE IF s[e] \in ControlChars THEN Fail
  ELSE IF At(s, e + 1) \in SimpleEscapes
  THEN ScanString(s, e + 2, Append(chunk, Unescape(At(s, e + 1))))
  ELSE IF At(s, e + 1) = "u" /\ \A k \in 2..5 : At(s, e + k) \in HexDigits
  THEN ScanString(s, e + 6, chunk \o SubSeq(s, e, e + 5))
  ELSE Fail

ScanPlain(s, j, acc, stops) ==
  IF stops = {} THEN Fail
  ELSE ScanStop(s, Min(stops), acc \o SubSeq(s, j, Min(stops) - 1))

\* the body of a string literal from position j on; acc is the text so far.
\* Plain characters are taken up to the next quote, backslash or control
\* character.
ScanString(s, j, acc) ==
  ScanPlain(s, j, acc, {k \in j..Len(s) : s[k] \in ControlChars \cup {Q, "\\"}})

\* (-?(?:0|[1-9][0-9]*))(\.[0-9]+)?([eE][-+]?[0-9]+)?
NumberLen(s, i) ==
  LET neg == IF At(s, i) = "-" THEN 1 ELSE 0
      p == i + neg
      int == IF At(s, p) = "0" THEN 1 ELSE Run("digit", s, p)
      q == p + int
      frac == IF At(s, q) = "." /\ Run("digit", s, q + 1) > 0
              THEN 1 + Run("digit", s, q + 1)
              ELSE 0
      r == q + frac
      sgn == IF At(s, r + 1) \in {"+", "-"} THEN 1 ELSE 0
      exp == IF At(s, r) \in {"e", "E"} /\ Run("digit", s, r + 1 + sgn) > 0
             THEN 1 + sgn + Run("digit", s, r + 1 + sgn)
             ELSE 0
  IN IF int = 0 THEN 0 ELSE neg + int + frac + exp

LNull == <<"n", "u", "l", "l">>
LTrue == <<"t", "r", "u", "e">>
LFalse == <<"f", "a", "l", "s", "e">>
LNaN == <<"N", "a", "N">>
LInfinity == <<"I", "n", "f", "i", "n", "i", "t", "y">>

\* dict assignment: a repeated key keeps its place and takes the new value
DictSet(keys, vals, k, v) ==
  IF \E n \in 1..Len(keys) : keys[n] = k
  THEN <<keys, [n \in 1..Len(vals) |-> IF keys[n] = k THEN v ELSE vals[n]]>>
  ELSE <<Append(keys, k), Append(vals, v)>>

RECURSIVE ParseValue(_, _)
RECURSIVE ParseMembers(_, _, _, _)
RECURSIVE ParseItems(_, _, _)

\* after a member k: v of an object, at e: the end, or a comma and the rest
MembersNext(s, e, d) ==
  IF At(s, e) = "}" THEN Ok(e + 1, JObject(d[1], d[2]))
  ELSE IF At(s, e) = "," THEN ParseMembers(s, SkipWs(s, e + 1), d[1], d[2])
  ELSE Fail

\* the value v of the member with key k
MemberValue(s, keys, vals, k, v) ==
  IF ~v.ok THEN Fail
  ELSE MembersNext(s, SkipWs(s, v.pos), DictSet(keys, vals, k.val.s, v.val))

\* the colon after the key k, expected at c
MemberColon(s, keys, vals, k, c) ==
  IF At(s, c) # ":" THEN Fail
  ELSE MemberValue(s, keys, vals, k, ParseValue(s, SkipWs(s, c + 1)))

MemberKey(s, keys, vals, k) ==
  IF ~k.ok THEN Fail
  ELSE MemberColon(s, keys, vals, k, SkipWs(s, k.pos))

\* the members of an object, from the opening quote of a key at i
ParseMembers(s, i, keys, vals) ==
  IF At(s, i) # Q THEN Fail
  ELSE MemberKey(s, keys, vals, ScanString(s, i + 1, <<>>))

\* after the item v of an array, at e: the end, or a comma and the rest
ItemsNext(s, e, items) ==
  IF At(s, e) = "]" THEN Ok(e + 1, JArray(items))
  ELSE IF At(s, e) = "," THEN ParseItems(s, SkipWs(s, e + 1), items)
  ELSE Fail

ItemValue(s, items, v) ==
  IF ~v.ok THEN Fail
  ELSE ItemsNext(s, SkipWs(s, v.pos), Append(items, v.val))

\* the items of an array, from the first character of an item at i
ParseItems(s, i, items) == ItemValue(s, items, ParseValue(s, i))

\* an object or an array whose first token after the bracket is at j
ParseObject(s, j) ==
  IF At(s, j) = "}" THEN Ok(j + 1, JObject(<<>>, <<>>))
  ELSE ParseMembers(s, j, <<>>, <<>>)

ParseArray(s, j) ==
  IF At(s, j) = "]" THEN Ok(j + 1, JArray(<<>>))
  ELSE ParseItems(s, j, <<>>)

ParseNumber(s, i, n) == Ok(i + n, JNumber(SubSeq(s, i, i + n - 1)))

ParseValue(s, i) ==
  IF At(s, i) = Q THEN ScanString(s, i + 1, <<>>)
  ELSE IF At(s, i) = "{" THEN ParseObject(s, SkipWs(s, i + 1))
  ELSE IF At(s, i) = "[" THEN ParseArray(s, SkipWs(s, i + 1))
  ELSE IF StartsWith(s, i, LNull) THEN Ok(i + 4, JLiteral("null"))
  ELSE IF StartsWith(s, i, LTrue) THEN Ok(i + 4, JLiteral("true"))
  ELSE IF StartsWith(s, i, LFalse) THEN Ok(i + 5, JLiteral("false"))
  ELSE IF NumberLen(s, i) > 0 THEN ParseNumber(s, i, NumberLen(s, i))
  ELSE IF StartsWith(s, i, LNaN) THEN Ok(i + 3, JLiteral("NaN"))
  ELSE IF StartsWith(s, i, LInfinity) THEN Ok(i + 8, JLiteral("Infinity"))
  ELSE IF At(s, i) = "-" /\ StartsWith(s, i + 1, LInfinity)
  THEN Ok(i + 9, JLiteral("-Infinity"))
  ELSE Fail

\* the value r that was read must be followed by whitespace only
LoadsEnd(s, r) ==
  IF r.ok /\ SkipWs(s, r.pos) = Len(s) + 1
  THEN [ok |-> TRUE, val |-> r.val]
  ELSE [ok |-> FALSE, val |-> JInvalid]

\* json.loads: one value, surrounded by whitespace only; ok = FALSE stands
\* for json.JSONDecodeError
json_loads(s) == LoadsEnd(s, ParseValue(s, SkipWs(s, 1)))

----------------------------------------------------------------------------
(* Python values the handlers test: None, str, list, dict and numbers are  *)
(* written as the JSON values above                                        *)

PyNone == JLiteral("null")

\* not v
PyFalsy(v) ==
  CASE v.t = "null" -> TRUE
    [] v.t = "false" -> TRUE
    [] v.t = "string" -> v.s = <<>>
    [] v.t = "number" -> v.lit = <<"0">>
    [] v.t = "array" -> v.items = <<>>
    [] v.t = "object" -> v.keys = <<>>
    [] OTHER -> FALSE

\* len(v) is defined (it raises TypeError otherwise)
HasLen(v) == v.t \in {"string", "array", "object"}

PyLen(v) ==
  CASE v.t = "string" -> Len(v.s)
    [] v.t = "array" -> Len(v.items)
    [] v.t = "object" -> Len(v.keys)

\* dict.get(k)
DictGet(d, k) ==
  IF \E n \in 1..Len(d.keys) : d.keys[n] = k
  THEN d.vals[CHOOSE n \in 1..Len(d.keys) : d.keys[n] = k]
  ELSE PyNone

DigitChar(d) == <<"0", "1", "2", "3", "4", "5", "6", "7", "8", "9">>[d + 1]

\* str(n) for a natural number n
RECURSIVE IntToChars(_)
IntToChars(n) ==
  IF n < 10 THEN <<DigitChar(n)>>
  ELSE Append(IntToChars(n \div 10), DigitChar(n % 10))

BoundedSeq(S, n) == UNION {[1..k -> S] : k \in 0..n}

----------------------------------------------------------------------------
(* Bounds                                                                  *)

\* lyrics are drawn up to this many characters over the limit
MaxOver == 2
\* paragraphs in a completion
MaxParas == 2
\* paragraph numbers a completion uses are 1..MaxKey
MaxKey == 3
\* entries in a transcript
MaxEntries == 2

----------------------------------------------------------------------------
(* Requests                                                                *)

MaxLyricsLength == 10000

KLyrics == <<"l", "y", "r", "i", "c", "s">>
KText == WText
KMeaning == WMeaning

VideoIds == {PyNone, JString(<<>>), JString(<<"d", "Q", "w", "4">>)}

LyricsOfLen(n) == JString([k \in 1..n |-> "a"])

LyricsLengths ==
  {0, 1} \cup (MaxLyricsLength - 1)..(MaxLyricsLength + MaxOver)

LyricsValues ==
  {LyricsOfLen(n) : n \in LyricsLengths}
    \cup {PyNone, JNumber(<<"5">>), JArray(<<JString(<<"l", "a">>)>>)}

\* request.json: the parsed body, or parsed = FALSE when the body is not JSON
Malformed == [parsed |-> FALSE, json |-> JInvalid]
Parsed(v) == [parsed |-> TRUE, json |-> v]

Bodies ==
  {Malformed, Parsed(PyNone), Parsed(JArray(<<>>)), Parsed(JObject(<<>>, <<>>))}
    \cup {Parsed(JObject(<<KLyrics>>, <<l>>)) : l \in LyricsValues}

NoRequest == [endpoint |-> "none"]

HealthRequests == {[endpoint |-> "/health"]}

TranscriptRequests ==
  {[endpoint |-> "/get_transcript", video_id |-> v] : v \in VideoIds}

AnalyzeRequests ==
  {[endpoint |-> "/analyze_lyrics", is_json |-> j, body |-> b] :
     j \in BOOLEAN, b \in Bodies}

Requests == HealthRequests \cup TranscriptRequests \cup AnalyzeRequests

----------------------------------------------------------------------------
(* What the two providers may answer                                       *)

Overloaded == <<"o", "v", "e", "r", "l", "o", "a", "d", "e", "d">>

TimedOut == <<"t", "i", "m", "e", "d", " ", "o", "u", "t">>

ProviderErrors == {Overloaded, TimedOut}

NoOutcome == [kind |-> "none"]

Entries ==
  {[text |-> "la la", start |-> 0, duration |-> 2],
   [text |-> "[Music]", start |-> 2, duration |-> 3]}

TranscriptOutcomes ==
  {[kind |-> "raised", error |-> e, entries |-> <<>>] : e \in ProviderErrors}
    \cup {[kind |-> "returned", error |-> <<>>, entries |-> es] :
            es \in BoundedSeq(Entries, MaxEntries)}

HeSaid ==
  <<"H", "e", " ", "s", "a", "i", "d", " ", "\"", "h", "i", "\"",
    " ", "t", "o", " ", "h", "e", "r">>

AGreeting == <<"A", " ", "g", "r", "e", "e", "t", "i", "n", "g">>

Plain == <<"l", "a", " ", "l", "a">>

QuotedNumber == <<"g", "o", "t", " ", "\"", "7", "\"", " ", "n", "o", "w">>

QuotedWord ==
  <<"s", "o", " ", "\"", "s", "a", "d", "\"", " ", "i", "t", " ",
    "i", "s">>

QuotedKeyword == <<"\"", "t", "e", "x", "t", " ", "m", "e", "\"", " ", "o", "k">>

WithSentinel == <<"m", "e", "@", "y", "o", "u">>

TextContents ==
  {HeSaid, Plain, QuotedNumber, QuotedWord, QuotedKeyword, WithSentinel}

MeaningContents == {AGreeting, QuotedWord}

RawArray == <<"[", "]">>

RawNumber == <<"7">>

RawString == <<"\"", "7", "\"">>

RawNull == <<"n", "u", "l", "l">>

RawProse ==
  <<"S", "o", "r", "r", "y", ",", " ", "n", "o", " ", "l", "y",
    "r", "i", "c", "s">>

RawNumberMap == <<"{", "\"", "2", "\"", ":", "7", "}">>

RawTexts == {RawArray, RawNumber, RawString, RawNull, RawProse, RawNumberMap}

\* how a completion lays its JSON out: what follows a colon, what separates
\* members, what follows an opening and precedes a closing brace
Layout(name) ==
  CASE name = "oneline" -> [colon |-> <<":", " ">>, comma |-> <<",", " ">>, nl |-> <<>>]
    [] name = "compact" -> [colon |-> <<":">>, comma |-> <<",">>, nl |-> <<>>]
    [] name = "lines" -> [colon |-> <<":", " ">>, comma |-> <<",", NL>>, nl |-> <<NL>>]
    [] name = "tight" -> [colon |-> <<":">>, comma |-> <<",", NL>>, nl |-> <<NL>>]

LayoutNames == {"oneline", "compact", "lines", "tight"}

\* strictly increasing paragraph numbers
KeySeqs ==
  {ks \in BoundedSeq(1..MaxKey, MaxParas) :
     \A i \in 1..Len(ks), j \in 1..Len(ks) : i < j => ks[i] < ks[j]}

\* a completion: paragraphs numbered keys, the first with the given text and
\* meaning, laid out as layout; or, for layout "raw", the text raw
Completions ==
  {[layout |-> l, keys |-> ks, text |-> x, meaning |-> m, raw |-> <<>>] :
     l \in LayoutNames, ks \in KeySeqs \ {<<>>},
     x \in TextContents, m \in MeaningContents}
    \cup {[layout |-> l, keys |-> <<>>, text |-> <<>>, meaning |-> <<>>, raw |-> <<>>] :
            l \in LayoutNames}
    \cup {[layout |-> "raw", keys |-> <<>>, text |-> <<>>, meaning |-> <<>>, raw |-> r] :
            r \in RawTexts}

Quoted(s) == <<Q>> \o s \o <<Q>>

RenderPara(c, i) ==
  LET lay == Layout(c.layout)
      x == IF i = 1 THEN c.text ELSE Plain
      m == IF i = 1 THEN c.meaning ELSE AGreeting
  IN Quoted(IntToChars(c.keys[i])) \o lay.colon \o <<"{">> \o lay.nl
       \o Quoted(KText) \o lay.colon \o Quoted(x) \o lay.comma
       \o Quoted(KMeaning) \o lay.colon \o Quoted(m) \o lay.nl \o <<"}">>

RECURSIVE RenderParas(_, _)
RenderParas(c, i) ==
  IF i > Len(c.keys) THEN <<>>
  ELSE IF i = Len(c.keys) THEN RenderPara(c, i)
  ELSE RenderPara(c, i) \o Layout(c.layout).comma \o RenderParas(c, i + 1)

\* message.content[0].text
Render(c) ==
  IF c.layout = "raw" THEN c.raw
  ELSE <<"{">> \o Layout(c.layout).nl \o RenderParas(c, 1)
         \o Layout(c.layout).nl \o <<"}">>

CompletionOutcomes ==
  {[kind |-> "raised", error |-> e, completion |-> <<>>] : e \in ProviderErrors}
    \cup {[kind |-> "returned", error |-> <<>>, completion |-> c] :
            c \in Completions}

----------------------------------------------------------------------------
(* analyze_with_ai                                                         *)

\* f"An error occurred with Anthropic API: {str(e)}"
AnthropicErrorPrefix ==
  <<"A", "n", " ", "e", "r", "r", "o", "r", " ", "o", "c", "c",
    "u", "r", "r", "e", "d", " ", "w", "i", "t", "h", " ", "A",
    "n", "t", "h", "r", "o", "p", "i", "c", " ", "A", "P", "I",
    ":", " ">>

InvalidJsonMessage ==
  <<"E", "r", "r", "o", "r", ":", " ", "I", "n", "v", "a", "l",
    "i", "d", " ", "J", "S", "O", "N", " ", "r", "e", "s", "p",
    "o", "n", "s", "e", " ", "f", "r", "o", "m", " ", "A", "I",
    " ", "m", "o", "d", "e", "l", ".", " ", "P", "l", "e", "a",
    "s", "e", " ", "t", "r", "y", " ", "a", "g", "a", "i", "n",
    ".">>

\* client.messages.create retried once after a failure
messages_create_retry(out) ==
  [calls |-> IF out.kind = "raised"
             THEN <<"completion", "completion">>
             ELSE <<"completion">>,
   raised |-> out.kind = "raised",
   text |-> IF out.kind = "returned" THEN Render(out.completion) ELSE <<>>]

\* client.messages.create(...): one call to the completion provider, which
\* raises or returns a message
messages_create(out) ==
  [calls |-> <<"completion">>,
   raised |-> out.kind = "raised",
   text |-> IF out.kind = "returned" THEN Render(out.completion) ELSE <<>>]

\* lines 131-136: final_response is returned when json.loads accepts it
Validated(m, final, valid) ==
  [ret |-> IF valid THEN final ELSE InvalidJsonMessage,
   calls |-> m.calls, log |-> <<>>,
   message |-> m.text, final_response |-> final]

\* the outcome m of the call: the except branch, or the sanitizer
AfterCall(m, out) ==
  IF m.raised
  THEN [ret |-> AnthropicErrorPrefix \o out.error,
        calls |-> m.calls, log |-> <<"error">>,
        message |-> <<>>, final_response |-> <<>>]
  ELSE Validated(m, clean_quotes(m.text), json_loads(clean_quotes(m.text)).ok)

\* the string analyze_with_ai returns (ret), with the calls it made, what it
\* logged, and the message and sanitized text when there were any
analyze_with_ai(lyrics, out) == AfterCall(messages_create(out), out)

----------------------------------------------------------------------------
(* The handlers                                                            *)

NoResponse == [status |-> 0, body |-> [pending |-> TRUE]]

Reply(status, body) == [status |-> status, body |-> body]

\* what a handler leaves behind when it calls no provider
Handled(resp, logged) ==
  [response |-> resp, calls |-> <<>>, log |-> logged, outcome |-> NoOutcome,
   message |-> <<>>, final_response |-> <<>>]

\* if not video_id, with the test for the empty string left out
NoVideoIdNoneOnly(video_id) == video_id.t = "null"

\* if not video_id
NoVideoId(video_id) == PyFalsy(video_id)

GetTranscriptHandler(req, out) ==
  IF NoVideoId(req.video_id)
  THEN Handled(Reply(400, [error |-> <<"No video ID provided">>]), <<>>)
  ELSE [response |->
          IF out.kind = "returned"
          THEN Reply(200, [transcript |->
                  [i \in 1..Len(out.entries) |-> out.entries[i].text]])
          ELSE Reply(500, [error |-> <<"Transcript fetch error: ", out.error>>]),
        calls |-> <<"transcript">>,
        log |-> IF out.kind = "returned" THEN <<"info">> ELSE <<"info", "error">>,
        outcome |-> out,
        message |-> <<>>, final_response |-> <<>>]

\* len(lyrics) > 10000 written as >=
TooLongInclusive(lyrics) == PyLen(lyrics) >= MaxLyricsLength

\* len(lyrics) > 10000
TooLong(lyrics) == PyLen(lyrics) > MaxLyricsLength

\* except Exception as e: ... 500
AnalysisError(e) ==
  Handled(Reply(500, [error |-> <<"Analysis error: ", e>>]), <<"error">>)

\* lines 96-100: the string analysis.ret parsed (format json) or as it is
AnalysisReply(analysis, parsed_analysis) ==
  IF parsed_analysis.ok
  THEN Reply(200, [analysis |-> parsed_analysis.val, format |-> "json"])
  ELSE Reply(200, [analysis |-> JString(analysis.ret), format |-> "raw"])

\* lines 93-100
Analyzed(analysis, out) ==
  [response |-> AnalysisReply(analysis, json_loads(analysis.ret)),
   calls |-> analysis.calls,
   log |-> <<"info">> \o analysis.log,
   outcome |-> out,
   message |-> analysis.message,
   final_response |-> analysis.final_response]

\* lines 87-100, for the value lyrics of request.json.get('lyrics')
WithLyrics(lyrics, out) ==
  IF PyFalsy(lyrics)
  THEN Handled(Reply(400, [error |-> <<"No lyrics provided">>]), <<>>)
  ELSE IF ~HasLen(lyrics)
  THEN AnalysisError("TypeError")
  ELSE IF TooLong(lyrics)
  THEN Handled(Reply(400, [error |-> <<"Lyrics exceed maximum length">>]), <<>>)
  ELSE Analyzed(analyze_with_ai(lyrics, out), out)

AnalyzeLyricsHandler(req, out) ==
  IF ~req.is_json
  THEN Handled(Reply(400, [error |-> <<"Content-Type must be application/json">>]), <<>>)
  ELSE IF ~req.body.parsed
  THEN AnalysisError("400 Bad Request")
  ELSE IF req.body.json.t # "object"
  THEN AnalysisError("AttributeError")
  ELSE WithLyrics(DictGet(req.body.json, KLyrics), out)

----------------------------------------------------------------------------
(* The server: a request is dispatched to its handler, which answers it    *)

Init ==
  /\ phase = "idle"
  /\ request = NoRequest
  /\ response = NoResponse
  /\ calls = <<>>
  /\ log = <<>>
  /\ outcome = NoOutcome
  /\ message = <<>>
  /\ final_response = <<>>

\* a request arrives; nothing of the previous request is kept
Receive ==
  /\ phase \in {"idle", "responded"}
  /\ \E r \in Requests : request' = r
  /\ phase' = "received"
  /\ response' = NoResponse
  /\ calls' = <<>>
  /\ log' = <<>>
  /\ outcome' = NoOutcome
  /\ message' = <<>>
  /\ final_response' = <<>>

Respond(h) ==
  /\ phase' = "responded"
  /\ response' = h.response
  /\ calls' = h.calls
  /\ log' = h.log
  /\ outcome' = h.outcome
  /\ message' = h.message
  /\ final_response' = h.final_response
  /\ UNCHANGED request

health_check ==
  /\ phase = "received"
  /\ request.endpoint = "/health"
  /\ Respond(Handled(Reply(200, [status |-> "healthy"]), <<>>))

get_transcript ==
  /\ phase = "received"
  /\ request.endpoint = "/get_transcript"
  /\ \E out \in TranscriptOutcomes : Respond(GetTranscriptHandler(request, out))

analyze_lyrics ==
  /\ phase = "received"
  /\ request.endpoint = "/analyze_lyrics"
  /\ \E out \in CompletionOutcomes : Respond(AnalyzeLyricsHandler(request, out))

Next == Receive \/ health_check \/ get_transcript \/ analyze_lyrics

Spec == Init /\ [][Next]_vars

----------------------------------------------------------------------------
(* Properties                                                              *)

Range(s) == {s[k] : k \in 1..Len(s)}

\* the number of double quotes in a text
Quotes(s) == Cardinality({k \in 1..Len(s) : s[k] = Q})

Answered(endpoint) == phase = "responded" /\ request.endpoint = endpoint

\* the completion provider returned a message, which was sanitized
Sanitized == Answered("/analyze_lyrics") /\ outcome.kind = "returned"

\* the message is a JSON-like object of text/meaning paragraphs
Paragraphs ==
  /\ Sanitized
  /\ outcome.completion.layout # "raw"
  /\ outcome.completion.keys # <<>>

ErrorBody(body) == DOMAIN body = {"error"}

\* a {text, meaning} record of two strings
IsParagraph(v) ==
  /\ v.t = "object"
  /\ Len(v.keys) = 2
  /\ {v.keys[1], v.keys[2]} = {KText, KMeaning}
  /\ \A i \in 1..2 : v.vals[i].t = "string"

\* an object whose keys are "1".."n", each mapping to a {text, meaning} record
IsParagraphMap(v) ==
  /\ v.t = "object"
  /\ \A n \in 1..Len(v.keys) : \E i \in 1..Len(v.keys) : v.keys[i] = IntToChars(n)
  /\ \A i \in 1..Len(v.vals) : IsParagraph(v.vals[i])

\* the double quotes inside the text and meaning contents of a completion
EmbeddedQuotes(c) == Quotes(c.text) + Quotes(c.meaning)

SpecExample ==
  <<"{", "\"", "1", "\"", ":", " ", "{", "\"", "t", "e", "x", "t",
    "\"", ":", " ", "\"", "H", "e", " ", "s", "a", "i", "d", " ",
    "\"", "h", "i", "\"", " ", "t", "o", " ", "h", "e", "r", "\"",
    ",", " ", "\"", "m", "e", "a", "n", "i", "n", "g", "\"", ":",
    " ", "\"", "A", " ", "g", "r", "e", "e", "t", "i", "n", "g",
    "\"", "}", "}">>

SpecExampleCleaned ==
  <<"{", "\"", "1", "\"", ":", " ", "{", "\"", "t", "e", "x", "t",
    "\"", ":", " ", "\"", "H", "e", " ", "s", "a", "i", "d", " ",
    "h", "i", " ", "t", "o", " ", "h", "e", "r", "\"", ",", " ",
    "\"", "m", "e", "a", "n", "i", "n", "g", "\"", ":", " ", "\"",
    "A", " ", "g", "r", "e", "e", "t", "i", "n", "g", "\"", "}",
    "}">>

\* C1: a message of well-formed "text": "..." / "meaning": "..." sequences
\* with stray quotes in the contents and no '@' is sanitized to valid JSON,
\* and the spec's example is sanitized to the example's stated output.
C1_SanitizedOutputParses ==
  (/\ Paragraphs
   /\ EmbeddedQuotes(outcome.completion) > 0
   /\ SENTINEL \notin Range(message))
    => /\ json_loads(final_response).ok
       /\ message = SpecExample => final_response = SpecExampleCleaned

\* C2: when the call succeeds and the sanitized text does not parse, the
\* answer is 200 with format "raw" and analysis equal to the sanitized text.
C2_RawCarriesSanitizedText ==
  (Sanitized /\ ~json_loads(final_response).ok)
    => /\ response.status = 200
       /\ response.body = [analysis |-> JString(final_response), format |-> "raw"]

\* C3: when the completion call raises, the answer is 500 with an error body.
C3_ProviderFailureIs500 ==
  (Answered("/analyze_lyrics") /\ outcome.kind = "raised")
    => response.status = 500 /\ ErrorBody(response.body)

\* C4: a message that already is valid JSON of the expected shape, without
\* '@', is returned by the sanitizer unchanged.
C4_ValidJsonUnchanged ==
  (/\ Sanitized
   /\ SENTINEL \notin Range(message)
   /\ json_loads(message).ok
   /\ IsParagraphMap(json_loads(message).val))
    => final_response = message

\* the request is not JSON, or its JSON has no non-empty lyrics field
LacksLyrics(req) ==
  \/ ~req.is_json
  \/ ~req.body.parsed
  \/ req.body.json.t # "object"
  \/ LET lyrics == DictGet(req.body.json, KLyrics)
     IN lyrics.t = "null" \/ (lyrics.t = "string" /\ lyrics.s = <<>>)

\* C5: an /analyze_lyrics request that is not JSON, or has no non-empty
\* lyrics field, is answered 400 with an error body.
C5_BadBodyIs400 ==
  (Answered("/analyze_lyrics") /\ LacksLyrics(request))
    => response.status = 400 /\ ErrorBody(response.body)

\* the request carries a lyrics string
HasLyricsString(req) ==
  /\ req.endpoint = "/analyze_lyrics"
  /\ req.is_json
  /\ req.body.parsed
  /\ req.body.json.t = "object"
  /\ DictGet(req.body.json, KLyrics).t = "string"

LyricsLen(req) == Len(DictGet(req.body.json, KLyrics).s)

\* C6: lyrics longer than 10,000 characters are answered 400 without a call
\* to the completion provider; lyrics of exactly 10,000 characters are not
\* rejected and reach the provider.
C6_LengthLimit ==
  (phase = "responded" /\ HasLyricsString(request))
    => /\ LyricsLen(request) > 10000
            => /\ response.status = 400
               /\ ErrorBody(response.body)
               /\ calls = <<>>
       /\ LyricsLen(request) = 10000
            => response.status # 400 /\ calls = <<"completion">>

C6_Witness ==
  /\ phase = "responded"
  /\ HasLyricsString(request)
  /\ LyricsLen(request) = 10001
  /\ response.status = 400

\* C7: /get_transcript with a missing or empty video_id is answered 400 with
\* an error body, and the transcript provider is not called.
C7_MissingVideoId ==
  (/\ Answered("/get_transcript")
   /\ \/ request.video_id.t = "null"
      \/ request.video_id.t = "string" /\ request.video_id.s = <<>>)
    => /\ response.status = 400
       /\ ErrorBody(response.body)
       /\ calls = <<>>

C7_Witness ==
  /\ Answered("/get_transcript")
  /\ request.video_id = JString(<<>>)
  /\ response.status = 400

\* C8: an answer with format "json" carries an object keyed "1".."n" whose
\* values are {text, meaning} records.
C8_JsonAnswerIsParagraphMap ==
  (/\ Answered("/analyze_lyrics")
   /\ "format" \in DOMAIN response.body
   /\ response.body.format = "json")
    => IsParagraphMap(response.body.analysis)

\* C9: a request makes at most one outbound call, a failed call is not
\* repeated, and /health makes none.
C9_AtMostOneCall ==
  /\ Len(calls) <= 1
  /\ request.endpoint = "/health" => calls = <<>>
  /\ outcome.kind = "raised" => Len(calls) = 1

C9_Witness ==
  /\ Answered("/analyze_lyrics")
  /\ outcome.kind = "raised"
  /\ calls = <<"completion">>

\* C10: for a message without '@', every double quote embedded in the text
\* and meaning contents is removed, so no more double quotes remain than the
\* message has outside those contents.
C10_EmbeddedQuotesRemoved ==
  (Paragraphs /\ SENTINEL \notin Range(message))
    => Quotes(final_response) <= Quotes(message) - EmbeddedQuotes(outcome.completion)

====
